---- MODULE Spec2Model ----
(***************************************************************************)
(* A model of the Configuration class of aurelia-configuration             *)
(* (src/src/aurelia-configuration.ts): the environment matcher check(),    *)
(* the dotted-path accessor getDictValue(), the resolution policy of       *)
(* get(), set(), and lazyMerge() with the asynchronous loadConfig() and    *)
(* mergeConfigFile().                                                      *)
(*                                                                         *)
(* JavaScript strings are sequences of one-character strings, so that      *)
(* split('.'), indexOf('.') and String.prototype.search are computed on    *)
(* characters.  JavaScript values are tagged records.                      *)
(***************************************************************************)
EXTENDS Integers, Sequences, FiniteSets, TLC

VARIABLES
    environment,        \* #environment
    environments,       \* #environments
    cascadeMode,        \* #cascadeMode
    basePathMode,       \* #basePathMode
    windowInfo,         \* #windowInfo
    configObject,       \* #configObject
    configMergeObject,  \* _configMergeObject
    ret,                \* the last call made on the object and what it returned
    calls,              \* the loadConfig and mergeConfigFile calls not yet taken back
    staged              \* the arguments of lazyMerge since _configMergeObject was last
                        \* initialised or cleared, in call order

vars == <<environment, environments, cascadeMode, basePathMode, windowInfo,
          configObject, configMergeObject, ret, calls, staged>>

----------------------------------------------------------------------------
(* Bounds of the model.                                                    *)

\* Levels of nesting below the active environment's section.
MaxDepth == 3
\* Segments of a key handed to get and getDictValue.
MaxSegs == 3
\* Host patterns in the list of one environment.
MaxHosts == 2
\* loadConfig and mergeConfigFile calls under way at the same time.
MaxCalls == 2
\* lazyMerge calls, direct or through mergeConfigFile, between two clearings
\* of _configMergeObject.
MaxStaged == 2

----------------------------------------------------------------------------
(* JavaScript values.                                                      *)

Undefined == [t |-> "undefined"]
Null == [t |-> "null"]
Bool(b) == [t |-> "boolean", b |-> b]
Num(n) == [t |-> "number", n |-> n]
Str(s) == [t |-> "string", s |-> s]
Obj(m) == [t |-> "object", m |-> m]
EmptyObj == Obj(<<>>)

\* A value thrown instead of returned: getDictValue's 'Key <key> not found'.
KeyNotFound(key) == [t |-> "throw", key |-> key]
IsThrow(v) == v.t = "throw"

\* Variant of Truthy: a test for presence (x != null) in place of truthiness.
TruthyLoose(v) ==
    v.t \notin {"undefined", "null"}
\* ToBoolean, as applied by `if (x)`, `x ? :`, `&&` and `!x`.
Truthy(v) ==
    CASE v.t = "undefined" -> FALSE
      [] v.t = "null" -> FALSE
      [] v.t = "boolean" -> v.b
      [] v.t = "number" -> v.n # 0
      [] v.t = "string" -> v.s # <<>>
      [] OTHER -> TRUE

\* The property read base[name].  The values of the model are objects and
\* the scalars string, number and boolean: a read on a scalar finds no own
\* property of the names used here and gives undefined.
Prop(base, name) ==
    IF base.t = "object" /\ name \in DOMAIN base.m THEN base.m[name] ELSE Undefined

\* name in base
HasKey(base, name) == base.t = "object" /\ name \in DOMAIN base.m

----------------------------------------------------------------------------
(* Strings.                                                                *)

DOT == "."

\* key.indexOf('.'), 0-based, -1 when there is none.
IndexOfDot(key) ==
    IF \E i \in 1..Len(key) : key[i] = DOT
    THEN (CHOOSE i \in 1..Len(key) : key[i] = DOT /\ \A j \in 1..(i - 1) : key[j] # DOT) - 1
    ELSE -1

\* key.split('.'): the segments between the dots; '' splits to [''].
RECURSIVE Split(_)
Split(key) ==
    LET i == IndexOfDot(key) IN
    IF i = -1 THEN <<key>>
    ELSE <<SubSeq(key, 1, i)>> \o Split(SubSeq(key, i + 2, Len(key)))

\* The key whose segments are segs: segs joined with dots.
RECURSIVE Join(_)
Join(segs) ==
    IF Len(segs) = 1 THEN segs[1]
    ELSE segs[1] \o <<DOT>> \o Join(Tail(segs))

DEFAULT == <<"d", "e", "f", "a", "u", "l", "t">>
EMPTY == <<>>

----------------------------------------------------------------------------
(* The accessor and the resolution policy.                                 *)

\* environmentEnabled
environmentEnabled ==
    ~(environment = DEFAULT \/ environment = EMPTY)

\* environmentExists
environmentExists == HasKey(configObject, environment)

\* The forEach of getDictValue over the segments still to walk.
RECURSIVE Walk(_, _)
Walk(currentObject, splitKey) ==
    IF splitKey = <<>> THEN currentObject
    ELSE LET next == Prop(currentObject, Head(splitKey)) IN
         IF Truthy(next) THEN Walk(next, Tail(splitKey))
         ELSE KeyNotFound(Head(splitKey))

\* getDictValue(baseObject, key): the value, or the thrown KeyNotFound.
getDictValue(baseObject, key) == Walk(baseObject, Split(key))

\* Variant of getSingular: the top level is consulted without testing
\* cascadeMode.
getSingularNoCascadeTest(key, defaultValue) ==
    IF ~environmentEnabled
    THEN IF Truthy(Prop(configObject, key)) THEN Prop(configObject, key) ELSE defaultValue
    ELSE IF environmentExists /\ Truthy(Prop(Prop(configObject, environment), key))
         THEN Prop(Prop(configObject, environment), key)
         ELSE IF Truthy(Prop(configObject, key))
              THEN Prop(configObject, key)
              ELSE defaultValue
\* Variant of getSingular: the top level is consulted before the section.
getSingularTopFirst(key, defaultValue) ==
    IF ~environmentEnabled
    THEN IF Truthy(Prop(configObject, key)) THEN Prop(configObject, key) ELSE defaultValue
    ELSE IF cascadeMode /\ Truthy(Prop(configObject, key))
         THEN Prop(configObject, key)
         ELSE IF environmentExists /\ Truthy(Prop(Prop(configObject, environment), key))
              THEN Prop(Prop(configObject, environment), key)
              ELSE defaultValue
\* get, key without a dot (the `if` branch).
getSingular(key, defaultValue) ==
    IF ~environmentEnabled
    THEN IF Truthy(Prop(configObject, key)) THEN Prop(configObject, key) ELSE defaultValue
    ELSE IF environmentExists /\ Truthy(Prop(Prop(configObject, environment), key))
         THEN Prop(Prop(configObject, environment), key)
         ELSE IF cascadeMode /\ Truthy(Prop(configObject, key))
              THEN Prop(configObject, key)
              ELSE defaultValue

\* Variant of getNested: the inner try has no catch, the throw of the
\* top-level lookup leaves get.
getNestedUncaught(key, defaultValue) ==
    IF environmentEnabled
    THEN IF environmentExists
         THEN LET inEnv == getDictValue(Prop(configObject, environment), key) IN
              IF ~IsThrow(inEnv) THEN inEnv
              ELSE IF cascadeMode THEN getDictValue(configObject, key) ELSE defaultValue
         ELSE defaultValue
    ELSE LET inTop == getDictValue(configObject, key) IN
         IF ~IsThrow(inTop) THEN inTop ELSE defaultValue
\* Variant of getNested: the cascade is tried also when the section is
\* missing.
getNestedCascadeAlways(key, defaultValue) ==
    IF environmentEnabled
    THEN LET inEnv == getDictValue(Prop(configObject, environment), key)
             inTop == getDictValue(configObject, key) IN
         IF environmentExists /\ ~IsThrow(inEnv) THEN inEnv
         ELSE IF cascadeMode /\ ~IsThrow(inTop) THEN inTop
              ELSE defaultValue
    ELSE LET inTop == getDictValue(configObject, key) IN
         IF ~IsThrow(inTop) THEN inTop ELSE defaultValue
\* get, key with a dot (the `else` branch); a throw inside a try block is
\* caught by its catch.
getNested(key, defaultValue) ==
    IF environmentEnabled
    THEN IF environmentExists
         THEN LET inEnv == getDictValue(Prop(configObject, environment), key) IN
              IF ~IsThrow(inEnv) THEN inEnv
              ELSE IF cascadeMode
                   THEN LET inTop == getDictValue(configObject, key) IN
                        IF ~IsThrow(inTop) THEN inTop ELSE defaultValue
                   ELSE defaultValue
         ELSE defaultValue
    ELSE LET inTop == getDictValue(configObject, key) IN
         IF ~IsThrow(inTop) THEN inTop ELSE defaultValue

\* get(key, defaultValue = null); an omitted argument arrives as undefined.
get(key, defaultArg) ==
    LET defaultValue == IF defaultArg = Undefined THEN Null ELSE defaultArg IN
    IF IndexOfDot(key) = -1
    THEN getSingular(key, defaultValue)
    ELSE getNested(key, defaultValue)

----------------------------------------------------------------------------
(* The environment matcher.                                                *)

\* An environments map: its entries [name, hostnames] in the order for..in
\* enumerates them, which for names that are not array indices is the order
\* of insertion.  hostnames is an array of patterns, or undefined.
Map(entries) == [t |-> "map", entries |-> entries]
Array(items) == [t |-> "array", items |-> items]

\* String(v) as `+=` applies it to a string or to undefined.
UNDEFINED_TEXT == <<"u", "n", "d", "e", "f", "i", "n", "e", "d">>
ToText(v) == IF v = Undefined THEN UNDEFINED_TEXT ELSE v.s

\* The string check() composes in its local `hostname`.
composedHost ==
    windowInfo.hostName
        \o (IF windowInfo.port # <<>> THEN <<":">> \o windowInfo.port ELSE <<>>)
        \o (IF basePathMode THEN ToText(windowInfo.pathName) ELSE <<>>)

\* One pattern character against one character of the string: '.' is the
\* wildcard of the regular expression, every other character of the model's
\* patterns stands for itself.
CharMatches(pc, c) == pc = "." \/ pc = c

\* host, as a regular expression, matches str from the 0-based index b on.
BodyAt(str, host, b) ==
    /\ b + Len(host) <= Len(str)
    /\ \A k \in 1..Len(host) : CharMatches(host[k], str[b + k])

\* Variant of TailAt: '(?:$|\W)', the end of the string or a character that
\* is no letter, digit or underscore.
TailNonWordAt(str, e) == e = Len(str) \/ str[e + 1] \in {":", "/", "."}
\* '(?:$|W)' at the 0-based index e: the end of the string or a letter W.
TailAt(str, e) == e = Len(str) \/ str[e + 1] = "W"

\* '(?:^|W)' + host + '(?:$|W)' matches str starting at the 0-based index i:
\* through ^ at index 0, or through a letter W at index i.
RegexAt(str, host, i) ==
    \/ i = 0 /\ BodyAt(str, host, 0) /\ TailAt(str, Len(host))
    \/ /\ i < Len(str) /\ str[i + 1] = "W"
       /\ BodyAt(str, host, i + 1) /\ TailAt(str, i + 1 + Len(host))

\* Variant of Search: hostname.search(host), the pattern anywhere in the
\* string.
SearchUnanchored(str, host) ==
    IF \E i \in 0..Len(str) : BodyAt(str, host, i)
    THEN CHOOSE i \in 0..Len(str) :
            BodyAt(str, host, i) /\ \A j \in 0..(i - 1) : ~BodyAt(str, host, j)
    ELSE -1
\* hostname.search('(?:^|W)' + host + '(?:$|W)'): the index of the first
\* match, -1 when there is none.
Search(str, host) ==
    IF \E i \in 0..Len(str) : RegexAt(str, host, i)
    THEN CHOOSE i \in 0..Len(str) :
            RegexAt(str, host, i) /\ \A j \in 0..(i - 1) : ~RegexAt(str, host, j)
    ELSE -1

\* The inner loop of check(): some pattern of the list is found.
AnyHostFound(hostname, hostnames) ==
    \E k \in 1..Len(hostnames.items) : Search(hostname, hostnames.items[k]) # -1

\* Variant of Loop: no return at the first environment found, the last one
\* found stays.
RECURSIVE LoopLastWins(_, _)
LoopLastWins(hostname, entries) ==
    IF entries = <<>> THEN Undefined
    ELSE LET last == entries[Len(entries)] IN
         IF Truthy(last.hostnames) /\ AnyHostFound(hostname, last.hostnames)
         THEN Str(last.name)
         ELSE LoopLastWins(hostname, SubSeq(entries, 1, Len(entries) - 1))
\* The outer loop of check() over the entries still to visit: the name of
\* the first environment with a pattern found, or undefined.
RECURSIVE Loop(_, _)
Loop(hostname, entries) ==
    IF entries = <<>> THEN Undefined
    ELSE LET env == Head(entries).name
             hostnames == Head(entries).hostnames IN
         IF ~Truthy(hostnames) THEN Loop(hostname, Tail(entries))
         ELSE IF AnyHostFound(hostname, hostnames) THEN Str(env)
              ELSE Loop(hostname, Tail(entries))

\* check() run with the map envs stored: the environment it leaves active
\* and the value it returns.
check(envs) ==
    IF ~Truthy(envs) THEN [environment |-> environment, value |-> Undefined]
    ELSE LET found == Loop(composedHost, envs.entries) IN
         IF found # Undefined
         THEN [environment |-> found.s, value |-> Bool(TRUE)]
         ELSE [environment |-> environment, value |-> Bool(FALSE)]

----------------------------------------------------------------------------
(* Inputs of the lookup specification.                                     *)

SegA == <<"a">>
SegB == <<"b">>
\* The name of the one named environment of the lookup specification.
EnvDev == <<"d", "e", "v">>

\* The scalars a configuration holds: two truthy ones, and 0, '' and false.
Scalars == {Str(<<"v">>), Num(1), Num(0), Str(<<>>), Bool(FALSE)}

\* The values nested at most d objects deep.
RECURSIVE Trees(_)
Trees(d) ==
    IF d = 0 THEN Scalars
    ELSE Scalars \cup {EmptyObj} \cup {Obj([k \in {SegA} |-> v]) : v \in Trees(d - 1)}

\* A configuration: an object with or without the key a, and with or without
\* a section for the named environment.
TopLevel(a, section) ==
    Obj([k \in (IF a = Undefined THEN {} ELSE {SegA})
               \cup (IF section = Undefined THEN {} ELSE {EnvDev})
         |-> IF k = SegA THEN a ELSE section])
ConfigInputs ==
    {TopLevel(a, section) : a \in Trees(MaxDepth - 1) \cup {Undefined},
                            section \in Trees(MaxDepth) \cup {Undefined}}

\* setAll stores its argument whatever is stored: the first setAll draws
\* from all the configurations and a later one from these.
ResetInputs == {EmptyObj}

SeqsUpTo(S, n) == UNION {[1..k -> S] : k \in 1..n}
\* The keys asked for, by their segments.
SegsInputs == SeqsUpTo({SegA, SegB}, MaxSegs)
\* The defaultValue argument; undefined is the omitted argument.
DefaultInputs == {Undefined, Str(<<"z">>)}
EnvironmentInputs == {DEFAULT, EMPTY, EnvDev}

----------------------------------------------------------------------------
(* The lookup specification: a constructed object, then any sequence of    *)
(* setAll, environment and cascadeMode assignments and of get and          *)
(* getDictValue calls.  The calls are synchronous: ret holds what a call   *)
(* returned until the caller has taken it, and the next call follows.      *)

Idle == [op |-> "idle"]

\* A slot of `calls` with no call in it.
NoCall == [op |-> "none"]
NoCalls == [i \in 1..MaxCalls |-> NoCall]

\* The fields as the field initialisers and the constructor leave them, for
\* a platform whose location has this hostname, port and pathname.
Constructed(hostname, port, pathname) ==
    /\ environment = DEFAULT
    /\ environments = Null
    /\ cascadeMode = TRUE
    /\ basePathMode = FALSE
    /\ windowInfo = [hostName |-> hostname, port |-> port,
                     pathName |-> IF pathname # <<>> /\ Len(pathname) > 1
                                  THEN Str(pathname) ELSE Undefined]
    /\ configMergeObject = EmptyObj
    /\ ret = Idle
    /\ calls = NoCalls
    /\ staged = <<>>

Init ==
    /\ Constructed(<<"h">>, <<>>, <<"/">>)
    /\ configObject = EmptyObj

\* The caller takes the value the last call returned.
Return ==
    /\ ret # Idle
    /\ ret' = Idle
    /\ UNCHANGED <<calls, staged, environment, environments, cascadeMode, basePathMode, windowInfo,
                   configObject, configMergeObject>>

\* setAll(obj)
SetAll(obj) ==
    /\ ret = Idle
    /\ configObject' = obj
    /\ UNCHANGED <<calls, staged, environment, environments, cascadeMode, basePathMode, windowInfo,
                   configMergeObject, ret>>

\* environment = e
SetEnvironment(e) ==
    /\ ret = Idle
    /\ environment' = e
    /\ UNCHANGED <<calls, staged, environments, cascadeMode, basePathMode, windowInfo,
                   configObject, configMergeObject, ret>>

\* cascadeMode = bool
SetCascadeMode(bool) ==
    /\ ret = Idle
    /\ cascadeMode' = IF bool \in {Undefined, Null} THEN TRUE ELSE bool.b
    /\ UNCHANGED <<calls, staged, environment, environments, basePathMode, windowInfo,
                   configObject, configMergeObject, ret>>

\* get(key, defaultArg), the key given by its segments.
Get(segs, defaultArg) ==
    /\ ret = Idle
    /\ ret' = [op |-> "get", segs |-> segs, defaultArg |-> defaultArg,
               value |-> get(Join(segs), defaultArg)]
    /\ UNCHANGED <<calls, staged, environment, environments, cascadeMode, basePathMode, windowInfo,
                   configObject, configMergeObject>>

\* getDictValue(baseObject, key) on the configuration or on the section of
\* the active environment.
GetDictValue(baseObject, segs) ==
    /\ ret = Idle
    /\ ret' = [op |-> "getDictValue", base |-> baseObject, segs |-> segs,
               value |-> getDictValue(baseObject, Join(segs))]
    /\ UNCHANGED <<calls, staged, environment, environments, cascadeMode, basePathMode, windowInfo,
                   configObject, configMergeObject>>

Next ==
    \/ Return
    \/ \E obj \in (IF configObject = EmptyObj THEN ConfigInputs ELSE ResetInputs) :
          SetAll(obj)
    \/ \E e \in EnvironmentInputs : SetEnvironment(e)
    \/ \E b \in {Bool(TRUE), Bool(FALSE), Undefined} : SetCascadeMode(b)
    \/ \E segs \in SegsInputs, d \in DefaultInputs : Get(segs, d)
    \/ \E segs \in SegsInputs :
          \E base \in {configObject} \cup {configObject.m[k] : k \in DOMAIN configObject.m \cap {environment}} :
              GetDictValue(base, segs)

Spec == Init /\ [][Next]_vars

----------------------------------------------------------------------------
(* Inputs of the matcher specification: the host, the maps and the         *)
(* configuration of the tests 'works with the same url but different port' *)
(* and 'works with a base path'.                                           *)

LOCALHOST == <<"l", "o", "c", "a", "l", "h", "o", "s", "t">>
PORT9876 == <<"9", "8", "7", "6">>
DEV1 == <<"d", "e", "v", "1">>
DEV2 == <<"d", "e", "v", "2">>
TEST == <<"t", "e", "s", "t">>
FALLBACK == <<"f", "a", "l", "l", "b", "a", "c", "k">>

\* location.port and location.pathname of the platform.
PortInputs == {<<>>, PORT9876}
PathnameInputs == {<<>>, <<"/">>, <<"/", "W", "e", "b">>}

\* The host patterns: the bare host name, host name and port, host name and
\* path, a prefix that ends where the path's W begins, and a suffix that
\* begins after it.
PatternPool ==
    <<LOCALHOST, LOCALHOST \o <<":">> \o PORT9876, LOCALHOST \o <<"/", "W", "e", "b">>,
      LOCALHOST \o <<"/">>, <<"e", "b">>>>

\* The elements of pool at the indices of S, in the pool's order.
RECURSIVE Pick(_, _)
Pick(pool, S) ==
    IF S = {} THEN <<>>
    ELSE LET i == CHOOSE x \in S : \A y \in S : x <= y IN
         <<pool[i]>> \o Pick(pool, S \ {i})

\* The pattern lists of an environment: absent, or up to MaxHosts patterns.
HostLists ==
    {Undefined} \cup
    {Array(Pick(PatternPool, S)) :
        S \in {T \in SUBSET (1..Len(PatternPool)) : Cardinality(T) <= MaxHosts}}

\* The maps assigned to `environments`: no, one or two environments.
EnvironmentsInputs ==
    {Map(<<>>)}
    \cup {Map(<<[name |-> n, hostnames |-> l]>>) : n \in {DEV1, DEV2}, l \in HostLists}
    \cup {Map(<<[name |-> n[1], hostnames |-> l1], [name |-> n[2], hostnames |-> l2]>>) :
            n \in {<<DEV1, DEV2>>, <<DEV2, DEV1>>}, l1 \in HostLists, l2 \in HostLists}

\* { dev1: ['localhost'], dev2: ['localhost:9876'] }
TestEnvironments ==
    Map(<<[name |-> DEV1, hostnames |-> Array(<<PatternPool[1]>>)],
          [name |-> DEV2, hostnames |-> Array(<<PatternPool[2]>>)]>>)

\* The maps assigned over a map already stored: an assignment stores its
\* map and runs check() whatever was stored before, so the first assignment
\* draws from all the maps and a later one from these.
ReassignInputs == {Map(<<>>), TestEnvironments}

\* { test: 'fallback', dev1: { test: 'dev1' }, dev2: { test: 'dev2' } }
TestConfig ==
    Obj([k \in {TEST, DEV1, DEV2} |->
            IF k = TEST THEN Str(FALLBACK) ELSE Obj([j \in {TEST} |-> Str(k)])])

----------------------------------------------------------------------------
(* The matcher specification: an object constructed for some location,     *)
(* given the tests' configuration with setAll, then any sequence of        *)
(* assignments to environments and environment, setBasePathMode, check and *)
(* get('test').                                                            *)

InitMatch ==
    /\ \E port \in PortInputs, pathname \in PathnameInputs :
           Constructed(LOCALHOST, port, pathname)
    /\ configObject = TestConfig

\* Variant of SetEnvironments: the map is stored and check() is not run.
SetEnvironmentsNoCheck(envs) ==
    /\ ret = Idle
    /\ IF envs # Null
       THEN environments' = envs /\ environment' = environment
       ELSE UNCHANGED <<environments, environment>>
    /\ ret' = [op |-> "environments", arg |-> envs, hostname |-> composedHost,
               before |-> environment, mapBefore |-> environments]
    /\ UNCHANGED <<calls, staged, cascadeMode, basePathMode, windowInfo, configObject,
                   configMergeObject>>
\* environments = envs: stores a map that is not null and runs check().
\* ret keeps the map assigned, the string check() composes at this moment,
\* and the environment and the map there were at the assignment.
SetEnvironments(envs) ==
    /\ ret = Idle
    /\ IF envs # Null
       THEN /\ environments' = envs
            /\ environment' = check(envs).environment
       ELSE UNCHANGED <<environments, environment>>
    /\ ret' = [op |-> "environments", arg |-> envs, hostname |-> composedHost,
               before |-> environment, mapBefore |-> environments]
    /\ UNCHANGED <<calls, staged, cascadeMode, basePathMode, windowInfo, configObject,
                   configMergeObject>>

\* setBasePathMode(bool)
SetBasePathMode(bool) ==
    /\ ret = Idle
    /\ basePathMode' = Truthy(bool)
    /\ UNCHANGED <<calls, staged, environment, environments, cascadeMode, windowInfo,
                   configObject, configMergeObject, ret>>

\* check(): ret keeps, with the value returned, the string composed and the
\* environment that was active at the call.
Check ==
    /\ ret = Idle
    /\ environment' = check(environments).environment
    /\ ret' = [op |-> "check", value |-> check(environments).value,
               hostname |-> composedHost, before |-> environment]
    /\ UNCHANGED <<calls, staged, environments, cascadeMode, basePathMode, windowInfo,
                   configObject, configMergeObject>>

NextMatch ==
    \/ Return
    \/ \E envs \in (IF environments = Null THEN EnvironmentsInputs ELSE ReassignInputs)
                     \cup {Null} : SetEnvironments(envs)
    \/ \E e \in {DEFAULT, DEV1, DEV2} : SetEnvironment(e)
    \/ \E b \in {Bool(TRUE), Bool(FALSE), Undefined} : SetBasePathMode(b)
    \/ Check
    \/ Get(<<TEST>>, Undefined)

SpecMatch == InitMatch /\ [][NextMatch]_vars

----------------------------------------------------------------------------
(* Merging and loading.                                                    *)

\* deepExtend(base, override) of './deep-extend': a new object in which
\* every key of override replaces the key of base, two objects under the
\* same key being merged key by key, and the other keys of base are kept.
RECURSIVE deepExtend(_, _)
deepExtend(base, override) ==
    Obj([k \in DOMAIN base.m \cup DOMAIN override.m |->
            IF k \notin DOMAIN override.m THEN base.m[k]
            ELSE IF k \in DOMAIN base.m /\ base.m[k].t = "object"
                                        /\ override.m[k].t = "object"
                 THEN deepExtend(base.m[k], override.m[k])
                 ELSE override.m[k]])

\* The fields configObject and _configMergeObject after a call.
Stores(config, mergeObject) == [configObject |-> config, configMergeObject |-> mergeObject]

\* Variant of lazyMerge: with no staging object there the argument is merged
\* into configObject at once.
lazyMergeEager(obj) ==
    IF Truthy(configMergeObject)
    THEN Stores(configObject, deepExtend(configMergeObject, obj))
    ELSE Stores(deepExtend(configObject, obj), configMergeObject)
\* lazyMerge(obj)
lazyMerge(obj) ==
    LET currentMergeConfig == IF Truthy(configMergeObject) THEN configMergeObject
                              ELSE EmptyObj IN
    Stores(configObject, deepExtend(currentMergeConfig, obj))

\* Variant of loadConfig: the staged object is merged before setAll(data).
loadConfigMergeFirst(data) ==
    IF Truthy(configMergeObject) THEN Stores(data, Null)
    ELSE Stores(data, configMergeObject)
\* loadConfig() from its await on: setAll(data), then the staged object, if
\* there is one, merged and cleared.
loadConfig(data) ==
    IF Truthy(configMergeObject)
    THEN Stores(deepExtend(data, configMergeObject), Null)
    ELSE Stores(data, configMergeObject)

\* The promise loadConfigFile returns.
Pending == [state |-> "pending"]
Resolved(value) == [state |-> "resolved", value |-> value]
Rejected(reason) == [state |-> "rejected", reason |-> reason]
\* resolve and reject settle a pending promise and leave a settled one.
Settle(promise, settled) == IF promise = Pending THEN settled ELSE promise

\* What the XMLHttpRequest ends with: the status, the text received, and
\* whether the request failed below HTTP (status 0, an error event).
Response(status, responseText, failed) ==
    [status |-> status, responseText |-> responseText, failed |-> failed]
\* A response text: the JSON text of a configuration, or no JSON at all.
JsonText(data) == [json |-> TRUE, of |-> data]
NoJson == [json |-> FALSE]
\* JSON.parse(text): the value, or the thrown SyntaxError.
SyntaxError == [t |-> "throw", key |-> <<"S", "y", "n", "t", "a", "x">>]
JSONparse(text) == IF text.json THEN text.of ELSE SyntaxError

NOT_FOUND == "Configuration file could not be found: "
NOT_LOADED == "Configuration file could not be found or loaded: "

\* xhr.onreadystatechange at readyState 4: a throw of JSON.parse leaves the
\* handler before resolve is called.
onreadystatechange(promise, xhr) ==
    IF xhr.status = 200
    THEN LET data == JSONparse(xhr.responseText) IN
         IF IsThrow(data) THEN promise ELSE Settle(promise, Resolved(data))
    ELSE promise
\* xhr.onloadend
onloadend(promise, xhr) ==
    IF xhr.status = 404 THEN Settle(promise, Rejected(NOT_FOUND)) ELSE promise
\* xhr.onerror
onerror(promise, xhr) == Settle(promise, Rejected(NOT_LOADED))

\* The promise of loadConfigFile once the request has ended: the events of
\* the request in the order they are fired, readystatechange, then error
\* for a failed request, then loadend.
loadConfigFile(xhr) ==
    LET p1 == onreadystatechange(Pending, xhr)
        p2 == IF xhr.failed THEN onerror(p1, xhr) ELSE p1 IN
    onloadend(p2, xhr)

----------------------------------------------------------------------------
(* Inputs of the loading specification.                                    *)

VALUE_V == Str(<<"v">>)
VALUE_W == Str(<<"w">>)

\* The configurations the files hold: { a: 'v', b: { a: 'v', b: 'v' } } and
\* { b: { b: 'v' } }.
FetchInputs ==
    {Obj([k \in {SegA, SegB} |->
             IF k = SegA THEN VALUE_V ELSE Obj([j \in {SegA, SegB} |-> VALUE_V])]),
     Obj([k \in {SegB} |-> Obj([j \in {SegB} |-> VALUE_V])])}

\* The arguments of lazyMerge: { b: { a: 'w' } }, a key below a key the
\* files hold, and { a: 'w', b: 'w' }, a string where the files hold an
\* object.
LazyInputs ==
    {Obj([k \in {SegB} |-> Obj([j \in {SegA} |-> VALUE_W])]),
     Obj([k \in {SegA, SegB} |-> VALUE_W])}

\* How a request ends: 200 with the JSON text of a configuration, 200 with a
\* text that is no JSON, 404, 500, and no response at all.
Responses ==
    {Response(200, JsonText(data), FALSE) : data \in FetchInputs}
    \cup {Response(200, NoJson, FALSE), Response(404, NoJson, FALSE),
          Response(500, NoJson, FALSE), Response(0, NoJson, TRUE)}
\* Of these, the ones the merging of loaded and staged data is followed
\* under: the requests that end with a configuration.
LoadResponses == {xhr \in Responses : xhr.responseText # NoJson}

----------------------------------------------------------------------------
(* The loading specification: a constructed object, then any interleaving  *)
(* of lazyMerge calls with loadConfig and mergeConfigFile calls, each of   *)
(* which sends its request, is suspended at its await until the request    *)
(* has ended and the promise is settled, and then runs to its end.  Here   *)
(* every request ends with a configuration; the fetching specification     *)
(* below lets the requests fail.                                           *)

Slots == 1..MaxCalls

\* A call suspended at `await this.loadConfigFile(path)`, the request sent.
Suspended(op, optional) ==
    [op |-> op, optional |-> optional, ended |-> FALSE,
     xhr |-> Response(0, NoJson, FALSE), promise |-> Pending, outcome |-> "awaiting"]

\* The first slot with no call in it takes the new call.
FreeSlot(i) == calls[i] = NoCall /\ \A j \in 1..(i - 1) : calls[j] # NoCall

\* Room for one more lazyMerge, counting the one each mergeConfigFile call
\* under way may still make.
Stageable ==
    Len(staged) + Cardinality({i \in Slots : calls[i].op = "mergeConfigFile"}) < MaxStaged

\* loadConfig() up to its await.
LoadConfig ==
    /\ \E i \in Slots :
          /\ FreeSlot(i)
          /\ calls' = [calls EXCEPT ![i] = Suspended("loadConfig", FALSE)]
    /\ UNCHANGED <<environment, environments, cascadeMode, basePathMode, windowInfo,
                   configObject, configMergeObject, ret, staged>>

\* mergeConfigFile(path, optional) up to its await.
MergeConfigFile(optional) ==
    /\ Stageable
    /\ \E i \in Slots :
          /\ FreeSlot(i)
          /\ calls' = [calls EXCEPT ![i] = Suspended("mergeConfigFile", optional)]
    /\ UNCHANGED <<environment, environments, cascadeMode, basePathMode, windowInfo,
                   configObject, configMergeObject, ret, staged>>

\* The request of the call in slot i ends as xhr says and its handlers run.
Respond(i, xhr) ==
    /\ calls[i] # NoCall /\ ~calls[i].ended
    /\ calls' = [calls EXCEPT ![i].ended = TRUE, ![i].xhr = xhr,
                              ![i].promise = loadConfigFile(xhr)]
    /\ UNCHANGED <<environment, environments, cascadeMode, basePathMode, windowInfo,
                   configObject, configMergeObject, ret, staged>>

\* The call in slot i goes on from its await, the promise being settled, and
\* runs to its end: loadConfig stores and merges, or throws the rejection;
\* mergeConfigFile stages the data, or catches the rejection and throws it
\* again unless optional is true.
Resume(i) ==
    /\ calls[i] # NoCall /\ calls[i].outcome = "awaiting" /\ calls[i].promise # Pending
    /\ LET c == calls[i]
           settledWell == c.promise.state = "resolved"
           after == IF ~settledWell THEN Stores(configObject, configMergeObject)
                    ELSE IF c.op = "loadConfig" THEN loadConfig(c.promise.value)
                         ELSE lazyMerge(c.promise.value) IN
       /\ configObject' = after.configObject
       /\ configMergeObject' = after.configMergeObject
       /\ staged' = IF ~settledWell THEN staged
                    ELSE IF c.op = "loadConfig" THEN <<>>
                         ELSE Append(staged, c.promise.value)
       /\ calls' = [calls EXCEPT ![i].outcome =
                       IF settledWell \/ (c.op = "mergeConfigFile" /\ c.optional)
                       THEN "fulfilled" ELSE "rejected"]
    /\ UNCHANGED <<environment, environments, cascadeMode, basePathMode, windowInfo, ret>>

\* The caller awaiting the call in slot i takes its outcome.
Take(i) ==
    /\ calls[i] # NoCall /\ calls[i].outcome # "awaiting"
    /\ calls' = [calls EXCEPT ![i] = NoCall]
    /\ UNCHANGED <<environment, environments, cascadeMode, basePathMode, windowInfo,
                   configObject, configMergeObject, ret, staged>>

\* lazyMerge(obj)
LazyMerge(obj) ==
    /\ Stageable
    /\ configObject' = lazyMerge(obj).configObject
    /\ configMergeObject' = lazyMerge(obj).configMergeObject
    /\ staged' = Append(staged, obj)
    /\ UNCHANGED <<environment, environments, cascadeMode, basePathMode, windowInfo,
                   ret, calls>>

NextLoad ==
    \/ LoadConfig
    \/ MergeConfigFile(FALSE)
    \/ \E i \in Slots, xhr \in LoadResponses : Respond(i, xhr)
    \/ \E i \in Slots : Resume(i)
    \/ \E i \in Slots : Take(i)
    \/ \E obj \in LazyInputs : LazyMerge(obj)

SpecLoad == Init /\ [][NextLoad]_vars

\* The fetching specification: the calls alone, their requests ending in
\* every way, with what the platform guarantees: a request sent ends, and a
\* call whose promise is settled goes on.
NextFetch ==
    \/ LoadConfig
    \/ \E optional \in BOOLEAN : MergeConfigFile(optional)
    \/ \E i \in Slots, xhr \in Responses : Respond(i, xhr)
    \/ \E i \in Slots : Resume(i)
    \/ \E i \in Slots : Take(i)

SpecFetch ==
    /\ Init /\ [][NextFetch]_vars
    /\ \A i \in Slots : WF_vars(\E xhr \in Responses : Respond(i, xhr))
    /\ \A i \in Slots : WF_vars(Resume(i))

----------------------------------------------------------------------------
(* set and its specification: a constructed object given a configuration   *)
(* with setAll, then any sequence of set calls and of assignments to       *)
(* environment.                                                            *)

\* The TypeError of an assignment to a property of a string, a number or a
\* boolean in strict code, which the code of a module and of a class is.
TypeError == [t |-> "throw", key |-> <<"T", "y", "p", "e">>]

\* base with base[name] = value, base being an object.
Assign(base, name, value) ==
    Obj([k \in DOMAIN base.m \cup {name} |-> IF k = name THEN value ELSE base.m[k]])

\* set(key, val): configObject after the call and what the call ends with,
\* undefined or the TypeError thrown.
set(key, val) ==
    IF IndexOfDot(key) = -1
    THEN [configObject |-> Assign(configObject, key, val), value |-> Undefined]
    ELSE LET splitKey == Split(key)
             parent == splitKey[1]
             child == splitKey[2]
             withParent == IF Prop(configObject, parent) = Undefined
                           THEN Assign(configObject, parent, EmptyObj)
                           ELSE configObject IN
         IF withParent.m[parent].t = "object"
         THEN [configObject |-> Assign(withParent, parent,
                                       Assign(withParent.m[parent], child, val)),
               value |-> Undefined]
         ELSE [configObject |-> withParent, value |-> TypeError]

\* The values stored under the key a: a string, 0 and an object with the
\* key a; under b there is a string or the empty object.
SetStored == {VALUE_V, Num(0), Obj([k \in {SegA} |-> VALUE_V])}
\* The configurations given with setAll: any of the keys a and b, and a
\* section for the named environment or none.
SetConfigInputs ==
    {Obj([k \in K |-> IF k = SegA THEN a ELSE IF k = SegB THEN b ELSE EmptyObj]) :
        K \in SUBSET {SegA, SegB, EnvDev}, a \in SetStored, b \in {VALUE_V, EmptyObj}}
\* The values set: a string, true, and an object.
SetValues == {Str(<<"x">>), Bool(TRUE), Obj([k \in {SegB} |-> VALUE_V])}

\* set(key, val), the key given by its segments: ret keeps the arguments,
\* what the call ended with and the configuration there was at the call.
Set(segs, val) ==
    /\ ret = Idle
    /\ configObject' = set(Join(segs), val).configObject
    /\ ret' = [op |-> "set", segs |-> segs, val |-> val,
               value |-> set(Join(segs), val).value, before |-> configObject]
    /\ UNCHANGED <<environment, environments, cascadeMode, basePathMode, windowInfo,
                   configMergeObject, calls, staged>>

NextSet ==
    \/ Return
    \/ \E obj \in (IF configObject = EmptyObj THEN SetConfigInputs ELSE ResetInputs) :
          SetAll(obj)
    \/ \E e \in {DEFAULT, EnvDev} : SetEnvironment(e)
    \/ \E segs \in SegsInputs, val \in SetValues : Set(segs, val)

SpecSet == Init /\ [][NextSet]_vars

----------------------------------------------------------------------------
(* What the lookup claims speak of, stated on the stored tree itself.      *)

\* The value stored at the path segs below root; undefined when a segment
\* of the path is not a key of the object reached so far.
RECURSIVE ValueAt(_, _)
ValueAt(root, segs) ==
    IF segs = <<>> THEN root
    ELSE IF root.t = "object" /\ Head(segs) \in DOMAIN root.m
         THEN ValueAt(root.m[Head(segs)], Tail(segs))
         ELSE Undefined

\* The stored values 0, '' and false.
Falsy == {Num(0), Str(<<>>), Bool(FALSE)}
\* A stored value that is none of them: a truthy scalar or an object.
Stored(v) == v \notin Falsy \cup {Undefined, Null}
\* Some segment of the path, intermediate or last, maps to 0, '' or false.
HitsFalsy(root, segs) ==
    \E i \in 1..Len(segs) : ValueAt(root, SubSeq(segs, 1, i)) \in Falsy

NamedEnvironment == environment \notin {DEFAULT, EMPTY}
SectionExists == environment \in DOMAIN configObject.m
Section == configObject.m[environment]
\* The default a get call falls back to: null when the argument is omitted.
DefaultOf(r) == IF r.defaultArg = Undefined THEN Null ELSE r.defaultArg
GetReturned == ret.op = "get"

\* C1: a key whose path leads to no stored value, neither from the top level
\* of configObject nor from the active environment's section, makes
\* get(key, d) return d (null when d is omitted), in every environment and
\* cascade setting; and no get call ends in the accessor's key-not-found
\* error.
C1_AbsentKeyGivesDefault ==
    GetReturned =>
        /\ ~IsThrow(ret.value)
        /\ ( /\ ValueAt(configObject, ret.segs) = Undefined
             /\ (NamedEnvironment /\ SectionExists
                    => ValueAt(Section, ret.segs) = Undefined)
             => ret.value = DefaultOf(ret) )

\* A dotted key of three segments, absent below an existing section and
\* absent at the top level though its first segment is there, with cascade
\* on: get returned the default given.
C1_Witness ==
    /\ GetReturned /\ Len(ret.segs) = 3
    /\ NamedEnvironment /\ SectionExists /\ cascadeMode
    /\ ValueAt(configObject, ret.segs) = Undefined
    /\ ValueAt(configObject, SubSeq(ret.segs, 1, 2)) # Undefined
    /\ ValueAt(Section, ret.segs) = Undefined
    /\ ret.defaultArg = Str(<<"z">>) /\ ret.value = Str(<<"z">>)

\* C2: with a named environment active and its section present, a key that
\* leads to a truthy value in the section makes get return that value, for
\* dot-free and dotted keys, whatever cascadeMode and the top level hold.
C2_SectionValueWins ==
    GetReturned /\ NamedEnvironment /\ SectionExists
                /\ Stored(ValueAt(Section, ret.segs))
        => ret.value = ValueAt(Section, ret.segs)

\* A three-segment key with a value in the section and another value at the
\* top level, cascade on: get returned the section's value.
C2_Witness ==
    /\ GetReturned /\ Len(ret.segs) = 3
    /\ NamedEnvironment /\ SectionExists /\ cascadeMode
    /\ Stored(ValueAt(Section, ret.segs))
    /\ Stored(ValueAt(configObject, SubSeq(ret.segs, 1, 2)))
    /\ ValueAt(configObject, SubSeq(ret.segs, 1, 2)) # ValueAt(Section, SubSeq(ret.segs, 1, 2))
    /\ ret.value = ValueAt(Section, ret.segs)

\* The same for a dot-free key whose top-level value differs.
C2_WitnessSingular ==
    /\ GetReturned /\ Len(ret.segs) = 1
    /\ NamedEnvironment /\ SectionExists /\ cascadeMode
    /\ Stored(ValueAt(Section, ret.segs))
    /\ Stored(ValueAt(configObject, ret.segs))
    /\ ValueAt(configObject, ret.segs) # ValueAt(Section, ret.segs)

\* C3: with a named environment active and its section present, a key that
\* leads to no truthy value in the section but to a truthy value at the top
\* level makes get(key, d) return the top-level value when cascadeMode is
\* true and d when it is false, for dot-free and dotted keys.
C3_CascadeToTopLevel ==
    GetReturned /\ NamedEnvironment /\ SectionExists
                /\ ~Stored(ValueAt(Section, ret.segs))
                /\ Stored(ValueAt(configObject, ret.segs))
        => ret.value = IF cascadeMode THEN ValueAt(configObject, ret.segs)
                                      ELSE DefaultOf(ret)

\* A dotted key found only at the top level, cascade off: get returned the
\* default.
C3_Witness ==
    /\ GetReturned /\ Len(ret.segs) > 1
    /\ NamedEnvironment /\ SectionExists /\ ~cascadeMode
    /\ ~Stored(ValueAt(Section, ret.segs))
    /\ Stored(ValueAt(configObject, ret.segs))
    /\ ret.value = DefaultOf(ret)

\* The same key with cascade on: get returned the top-level value.
C3_WitnessCascade ==
    /\ GetReturned /\ Len(ret.segs) > 1
    /\ NamedEnvironment /\ SectionExists /\ cascadeMode
    /\ ~Stored(ValueAt(Section, ret.segs))
    /\ Stored(ValueAt(configObject, ret.segs))
    /\ ret.value = ValueAt(configObject, ret.segs)

\* C4: with a named environment active and no top-level key of that name,
\* get of a dotted key returns the default, cascade or not, resolvable at
\* the top level or not; get of a dot-free key with a truthy top-level value
\* returns that value when cascadeMode is true.
C4_MissingSection ==
    GetReturned /\ NamedEnvironment /\ ~SectionExists
        => /\ Len(ret.segs) > 1 => ret.value = DefaultOf(ret)
           /\ Len(ret.segs) = 1 /\ cascadeMode /\ Stored(ValueAt(configObject, ret.segs))
                 => ret.value = ValueAt(configObject, ret.segs)

\* No section, cascade on, a dotted key that resolves at the top level: get
\* returned the default.
C4_Witness ==
    /\ GetReturned /\ Len(ret.segs) > 1
    /\ NamedEnvironment /\ ~SectionExists /\ cascadeMode
    /\ Stored(ValueAt(configObject, ret.segs))
    /\ ret.value = DefaultOf(ret)

\* No section, cascade on, a dot-free key with a top-level value: get
\* returned it.
C4_WitnessSingular ==
    /\ GetReturned /\ Len(ret.segs) = 1
    /\ NamedEnvironment /\ ~SectionExists /\ cascadeMode
    /\ Stored(ValueAt(configObject, ret.segs))
    /\ ret.value = ValueAt(configObject, ret.segs)

\* The places get looks a key up in: the top level in the default
\* environment; in a named one the section when it exists, and the top level
\* when cascadeMode is on and either the section exists or the key has no
\* dot.
Consulted(segs) ==
    IF ~NamedEnvironment THEN {configObject}
    ELSE (IF SectionExists THEN {Section} ELSE {})
         \cup (IF cascadeMode /\ (SectionExists \/ Len(segs) = 1)
               THEN {configObject} ELSE {})

\* C5: a stored 0, '' or false counts as absent.  getDictValue throws
\* key-not-found, naming the segment, when a segment of the key
\* (intermediate or last) maps to such a value; get never returns such a
\* stored value, and returns the default when the key meets one where it is
\* looked up and no place looked up holds a truthy value for it (with
\* cascadeMode on, a truthy top-level value is still returned, as in C3).
C5_FalsyIsAbsent ==
    /\ ret.op = "getDictValue" =>
          \A i \in 1..Len(ret.segs) :
              ValueAt(ret.base, SubSeq(ret.segs, 1, i)) \in Falsy
                  => ret.value = KeyNotFound(ret.segs[i])
    /\ GetReturned =>
          /\ ret.value \notin Falsy
          /\ ( /\ \E root \in Consulted(ret.segs) : HitsFalsy(root, ret.segs)
               /\ \A root \in Consulted(ret.segs) : ~Stored(ValueAt(root, ret.segs))
               => ret.value = DefaultOf(ret) )

\* A named environment whose section holds a falsy value at the last
\* segment of a dotted key: get returned the default.
C5_Witness ==
    /\ GetReturned /\ Len(ret.segs) > 1
    /\ NamedEnvironment /\ SectionExists
    /\ ValueAt(Section, ret.segs) \in Falsy
    /\ ret.value = DefaultOf(ret)

\* getDictValue met false at an intermediate segment and threw.
C5_WitnessAccessor ==
    /\ ret.op = "getDictValue" /\ Len(ret.segs) = 3
    /\ ValueAt(ret.base, SubSeq(ret.segs, 1, 2)) = Bool(FALSE)
    /\ ret.value = KeyNotFound(ret.segs[2])

\* The default environment, a dot-free key stored as 0: get returned the
\* default.
C5_WitnessSingular ==
    /\ GetReturned /\ Len(ret.segs) = 1 /\ ~NamedEnvironment
    /\ ValueAt(configObject, ret.segs) = Num(0)
    /\ ret.value = DefaultOf(ret)

----------------------------------------------------------------------------
(* What the matcher claims speak of, stated on the strings themselves.     *)

CheckReturned == ret.op = "check"

\* The pattern p is a substring of str.
Contains(str, p) ==
    \E s \in 1..(Len(str) - Len(p) + 1) : SubSeq(str, s, s + Len(p) - 1) = p

\* The pattern p occurs in str from the start of str or right after a letter
\* W, up to the end of str or right before a letter W.
Bounded(str, p) ==
    \E s \in 1..(Len(str) - Len(p) + 1) :
        /\ SubSeq(str, s, s + Len(p) - 1) = p
        /\ s = 1 \/ str[s - 1] = "W"
        /\ s + Len(p) - 1 = Len(str) \/ str[s + Len(p)] = "W"

\* The patterns listed for the i-th environment of the stored map.
PatternsOf(i) ==
    LET l == environments.entries[i].hostnames IN
    IF l = Undefined THEN {} ELSE {l.items[k] : k \in 1..Len(l.items)}
NameOf(i) == environments.entries[i].name
Entries == 1..Len(environments.entries)

\* hostName, then ':' and the port when there is one.
HostAndPort ==
    windowInfo.hostName
        \o (IF windowInfo.port = <<>> THEN <<>> ELSE <<":">> \o windowInfo.port)

\* C6: for a host with a port, outside base-path mode, check() selects the
\* environment that lists 'hostname:port' although environments listed
\* before it have the bare host name as their pattern; with
\* {dev1: ['localhost'], dev2: ['localhost:9876']} on localhost:9876 check()
\* makes dev2 active and returns true, and with dev2 active get('test') on
\* the tests' configuration returns 'dev2', neither 'dev1' nor 'fallback'.
C6_PortSelectsExactPattern ==
    /\ CheckReturned /\ environments # Null /\ ~basePathMode /\ windowInfo.port # <<>>
          => \A i \in Entries :
                /\ HostAndPort \in PatternsOf(i)
                /\ \A j \in 1..(i - 1) : PatternsOf(j) \subseteq {windowInfo.hostName}
                => environment = NameOf(i) /\ ret.value = Bool(TRUE)
    /\ CheckReturned /\ environments = TestEnvironments /\ ~basePathMode
                     /\ windowInfo.port = PORT9876
          => environment = DEV2 /\ ret.value = Bool(TRUE)
    /\ GetReturned /\ environment = DEV2 /\ configObject = TestConfig
          => ret.value = Str(DEV2)

\* check() ran on localhost:9876 with the tests' map and made dev2 active
\* where default was.
C6_Witness ==
    /\ CheckReturned /\ environments = TestEnvironments /\ ~basePathMode
    /\ windowInfo.port = PORT9876 /\ ret.hostname = LOCALHOST \o <<":">> \o PORT9876
    /\ ret.before = DEFAULT /\ environment = DEV2

\* get('test') with dev2 active under the tests' map returned 'dev2'.
C6_WitnessGet ==
    /\ GetReturned /\ environments = TestEnvironments /\ environment = DEV2
    /\ ret.value = Str(DEV2)

\* C7 as claimed: a pattern matches whenever the composed string contains
\* it, so check() returns true as soon as some listed pattern is a substring
\* of the string it composed.
C7_SubstringMatches ==
    CheckReturned /\ environments # Null
        => ( ret.value = Bool(TRUE)
             <=> \E i \in Entries : \E p \in PatternsOf(i) : Contains(ret.hostname, p) )

\* C7, amended: a pattern matches exactly when it occurs in the composed
\* string bounded on the left by the start of the string or a letter W and
\* on the right by the end of the string or a letter W: check() returns true
\* exactly when some listed pattern occurs so, and the environment it makes
\* active lists such a pattern.
C7_BoundedOccurrenceMatches ==
    CheckReturned /\ environments # Null
        => /\ ret.value = Bool(TRUE)
                <=> \E i \in Entries : \E p \in PatternsOf(i) : Bounded(ret.hostname, p)
           /\ ret.value = Bool(TRUE)
                => \E i \in Entries :
                      /\ NameOf(i) = environment
                      /\ \E p \in PatternsOf(i) : Bounded(ret.hostname, p)

\* check() found nothing although a listed pattern is a substring of the
\* composed string: 'localhost' in 'localhost:9876'.
C7_Witness ==
    /\ CheckReturned /\ environments # Null /\ ret.value = Bool(FALSE)
    /\ \E i \in Entries : \E p \in PatternsOf(i) : Contains(ret.hostname, p)

\* check() selected an environment through a pattern that neither starts
\* nor ends the composed string: 'eb' after the W of 'localhost/Web'.
C7_WitnessLetterW ==
    /\ CheckReturned /\ environments # Null /\ ret.value = Bool(TRUE)
    /\ \A i \in Entries : \A p \in PatternsOf(i) :
          Bounded(ret.hostname, p) => p = <<"e", "b">>

\* The environments of the stored map one of whose patterns matches.
MatchingEntries ==
    {i \in Entries : \E p \in PatternsOf(i) : Bounded(ret.hostname, p)}

\* C8: check() makes the first environment, in the map's order, that lists
\* a matching pattern the active one and returns true, also when several
\* environments match the same host; and check() run again on the state it
\* left, with the same host, basePathMode and map, selects the same
\* environment and returns the same value.
C8_FirstListedWins ==
    CheckReturned /\ environments # Null
        => /\ \A i \in MatchingEntries :
                (\A j \in MatchingEntries : i <= j)
                    => environment = NameOf(i) /\ ret.value = Bool(TRUE)
           /\ check(environments) = [environment |-> environment, value |-> ret.value]

\* Two environments match the same host and the first listed, dev2, became
\* active.
C8_Witness ==
    /\ CheckReturned /\ environments # Null
    /\ MatchingEntries = {1, 2}
    /\ NameOf(1) = DEV2 /\ environment = DEV2 /\ ret.before # DEV2

\* C9 as claimed: a check() that selects no environment returns false and
\* leaves the active environment as it was, the map being null included.
C9_NoMatchReturnsFalse ==
    CheckReturned /\ ret.value # Bool(TRUE)
        => ret.value = Bool(FALSE) /\ environment = ret.before

\* What of C9 the code does: no selection leaves the environment alone, and
\* the value returned is false for a stored map and undefined for none.
C9_NoMatchLeavesEnvironment ==
    CheckReturned /\ ret.value # Bool(TRUE)
        => /\ environment = ret.before
           /\ ret.value = IF environments = Null THEN Undefined ELSE Bool(FALSE)

\* The string C10 says check() matches against.
ClaimedHost ==
    HostAndPort \o (IF basePathMode /\ windowInfo.pathName # Undefined
                    THEN windowInfo.pathName.s ELSE <<>>)

\* C10 as claimed: check() matches against hostName, ':' and the port when
\* there is one, and pathName only in base-path mode with pathName set; so
\* in base-path mode on a host whose path is empty or '/' an environment
\* that lists hostName[:port] first is selected.
C10_ComposedString ==
    CheckReturned
        => /\ ret.hostname = ClaimedHost
           /\ environments # Null /\ Entries # {} /\ HostAndPort \in PatternsOf(1)
              /\ windowInfo.pathName = Undefined
                 => environment = NameOf(1) /\ ret.value = Bool(TRUE)

\* What of C10 the code does: the claimed string whenever base-path mode is
\* off or pathName is set, and the claimed string followed by the text
\* 'undefined' otherwise.
C10_ComposedStringOfCode ==
    CheckReturned
        => ret.hostname =
              IF basePathMode /\ windowInfo.pathName = Undefined
              THEN ClaimedHost \o UNDEFINED_TEXT ELSE ClaimedHost

----------------------------------------------------------------------------
(* What the loading claims speak of.                                       *)

\* The object staged by the lazyMerge calls whose arguments are log, in call
\* order: each argument merged over what the earlier ones left.
RECURSIVE StagedObject(_)
StagedObject(log) ==
    IF log = <<>> THEN EmptyObj
    ELSE deepExtend(StagedObject(SubSeq(log, 1, Len(log) - 1)), log[Len(log)])

\* This step is the end of the loadConfig call in slot i, its fetch having
\* succeeded.
LoadCompletes(i) ==
    /\ calls[i].op = "loadConfig" /\ calls[i].outcome = "awaiting"
    /\ calls'[i].op = "loadConfig" /\ calls'[i].outcome = "fulfilled"

\* This step is a lazyMerge call, direct or made by mergeConfigFile.
LazyMerges == Len(staged') > Len(staged)

\* C11: a loadConfig whose fetch succeeded ends with configObject equal to
\* the fetched configuration merged with the object staged by the lazyMerge
\* calls made so far, direct or through mergeConfigFile, folded in call
\* order, and with the staging object null; and configObject holds nothing
\* staged before: no other step of the interleaving changes it.
C11_LoadMergesStagedInOrder ==
    [][ /\ \A i \in Slots :
              LoadCompletes(i) =>
                  /\ configObject' = deepExtend(calls[i].promise.value, StagedObject(staged))
                  /\ configMergeObject' = Null
        /\ (\A i \in Slots : ~LoadCompletes(i)) => configObject' = configObject ]_vars

\* A loadConfig has ended after lazyMerge({ a: 'w', b: 'w' }) and then
\* lazyMerge({ b: { a: 'w' } }): over the fetched { a: 'v', b: { a: 'v',
\* b: 'v' } } the configuration is { a: 'w', b: { a: 'w', b: 'v' } }, which
\* no other order and no single call gives.
C11_Witness ==
    /\ \E i \in Slots : calls[i].op = "loadConfig" /\ calls[i].outcome = "fulfilled"
                        /\ DOMAIN calls[i].promise.value.m = {SegA, SegB}
    /\ configMergeObject = Null
    /\ configObject =
          Obj([k \in {SegA, SegB} |->
                  IF k = SegA THEN VALUE_W
                  ELSE Obj([j \in {SegA, SegB} |-> IF j = SegA THEN VALUE_W ELSE VALUE_V])])

\* The keys whose get is compared across a lazyMerge: the two keys the
\* files and the arguments hold.
GetKeys == {<<SegA>>, <<SegB>>}

\* C12: a lazyMerge call, direct or made by mergeConfigFile, before a load,
\* while a fetch is pending or after a loadConfig has ended, leaves
\* configObject and the result of every get as they were, and stages its
\* argument over the staging object, a fresh one when that is null; what is
\* staged reaches configObject only at the end of a loadConfig.
C12_LazyMergeLeavesConfig ==
    [][ /\ LazyMerges =>
              /\ configObject' = configObject
              /\ \A segs \in GetKeys, d \in DefaultInputs :
                    get(Join(segs), d)' = get(Join(segs), d)
              /\ configMergeObject' =
                    deepExtend(IF configMergeObject = Null THEN EmptyObj
                               ELSE configMergeObject, staged'[Len(staged')])
        /\ configObject' # configObject => \E i \in Slots : LoadCompletes(i) ]_vars

\* lazyMerge was called after a loadConfig had ended and cleared the staging
\* object: a configuration is loaded, and the argument alone is staged.
C12_Witness ==
    /\ configObject \in FetchInputs
    /\ Len(staged) = 1 /\ staged[1] \in LazyInputs
    /\ configMergeObject = staged[1]
    /\ get(SegA, Undefined) \in {VALUE_V, Null}

\* The request of the call in slot i has ended without a configuration: a
\* status other than 200, no response at all, or a text that is no JSON.
FetchFailed(i) ==
    /\ calls[i] # NoCall /\ calls[i].ended
    /\ ~(calls[i].xhr.status = 200 /\ calls[i].xhr.responseText # NoJson)
\* The call in slot i is one whose failure is not to be swallowed.
MustReject(i) ==
    calls[i].op = "loadConfig" \/ (calls[i].op = "mergeConfigFile" /\ ~calls[i].optional)
\* The call in slot i has rejected to its caller.
RejectedToCaller(i) == calls[i] # NoCall /\ calls[i].outcome = "rejected"

\* C13 as claimed: every loadConfig call, and every mergeConfigFile call
\* with optional false, whose fetch fails, be it by 404, by another status,
\* by a network error or by a body that does not parse, eventually rejects
\* to its caller and never stays pending.
C13_FailedFetchRejects ==
    \A i \in Slots : (FetchFailed(i) /\ MustReject(i)) ~> RejectedToCaller(i)

\* What of C13 the code does: a fetch that fails by 404 or by a network
\* error rejects to the caller.
C13_NotFoundOrErrorRejects ==
    \A i \in Slots :
        (FetchFailed(i) /\ MustReject(i) /\ (calls[i].xhr.status = 404 \/ calls[i].xhr.failed))
            ~> RejectedToCaller(i)

\* A fetch that fails in another way, by a status such as 500 or by a body
\* that does not parse, leaves the promise of loadConfigFile pending, and no
\* handler is left to settle it.
C13_OtherFailuresStayPending ==
    \A i \in Slots :
        FetchFailed(i) /\ calls[i].xhr.status # 404 /\ ~calls[i].xhr.failed
            => calls[i].promise = Pending /\ calls[i].outcome = "awaiting"

\* And a call whose fetch has failed changes neither configObject nor the
\* staging object when it goes on.
C13_FailedCallLeavesState ==
    [][ \A i \in Slots :
            FetchFailed(i) /\ calls'[i] # calls[i]
                => configObject' = configObject /\ configMergeObject' = configMergeObject ]_vars

----------------------------------------------------------------------------
(* What the claim on the assignment to environments speaks of.             *)

AssignReturned == ret.op = "environments"

\* The first environment of the stored map one of whose patterns matches
\* the string composed at the assignment.
FirstMatching == CHOOSE i \in MatchingEntries : \A j \in MatchingEntries : i <= j

\* C14: an assignment of a map that is not null to environments stores the
\* map and runs check() at once: the active environment after it is the
\* first one of the map with a pattern matching the string composed with
\* the basePathMode in force at the assignment, and the one active before
\* when none matches; an assignment of null leaves the map and the active
\* environment as they were; and a setBasePathMode that changes the mode
\* leaves the active environment as it is.
C14_AssignmentRunsCheck ==
    /\ [](AssignReturned =>
            IF ret.arg # Null
            THEN /\ environments = ret.arg
                 /\ ret.hostname = composedHost
                 /\ environment = IF MatchingEntries # {} THEN NameOf(FirstMatching)
                                                          ELSE ret.before
            ELSE environments = ret.mapBefore /\ environment = ret.before)
    /\ [][basePathMode' # basePathMode => environment' = environment]_vars

\* A map was assigned in base-path mode on a host with a path, and an
\* environment that lists host name and path became active: outside
\* base-path mode no pattern of the map matches.
C14_Witness ==
    /\ AssignReturned /\ ret.arg # Null
    /\ basePathMode /\ windowInfo.pathName # Undefined
    /\ MatchingEntries # {} /\ environment # ret.before
    /\ \A i \in Entries : \A p \in PatternsOf(i) : ~Bounded(HostAndPort, p)

\* null was assigned over a stored map with an environment selected.
C14_WitnessNull ==
    /\ AssignReturned /\ ret.arg = Null
    /\ environments # Null /\ environment \in {DEV1, DEV2}

----------------------------------------------------------------------------
(* What the claim on set speaks of.                                        *)

SetReturned == ret.op = "set"

\* C15 as claimed: in the default environment, on every configuration,
\* set(key, v) with a truthy v and a key of one or two segments makes
\* get(key) return v, the value being stored at the top level or below the
\* parent; with more segments the value is stored under the first two and
\* get of the whole key does not return it.
C15_SetThenGet ==
    SetReturned /\ ~NamedEnvironment =>
        /\ ~IsThrow(ret.value)
        /\ ValueAt(configObject, SubSeq(ret.segs, 1, IF Len(ret.segs) > 2 THEN 2
                                                      ELSE Len(ret.segs))) = ret.val
        /\ IF Len(ret.segs) <= 2
           THEN get(Join(ret.segs), Undefined) = ret.val
           ELSE get(Join(ret.segs), Undefined) # ret.val

\* The entry of the parent at the call is a string, a number or a boolean.
ScalarParent ==
    /\ Len(ret.segs) > 1
    /\ ValueAt(ret.before, <<ret.segs[1]>>).t \in {"string", "number", "boolean"}

\* What of C15 the code does: all of it when the key has no dot or the
\* parent is absent or an object; and with a string, a number or a boolean
\* at the parent set throws and stores nothing, whatever the environment.
C15_SetThenGetUnlessScalarParent ==
    /\ SetReturned /\ ~ScalarParent =>
          /\ ~IsThrow(ret.value)
          /\ ValueAt(configObject, SubSeq(ret.segs, 1, IF Len(ret.segs) > 2 THEN 2
                                                        ELSE Len(ret.segs))) = ret.val
          /\ ~NamedEnvironment =>
                IF Len(ret.segs) <= 2
                THEN get(Join(ret.segs), Undefined) = ret.val
                ELSE get(Join(ret.segs), Undefined) # ret.val
    /\ SetReturned /\ ScalarParent =>
          ret.value = TypeError /\ configObject = ret.before

\* set('a.b', v) was called, default environment, with the string 'v' at a.
C15_ScalarParentCase ==
    /\ SetReturned /\ ~NamedEnvironment /\ ret.segs = <<SegA, SegB>>
    /\ ValueAt(ret.before, <<SegA>>) = VALUE_V
    /\ ret.value = TypeError
    /\ get(Join(ret.segs), Undefined) = Null

====
